---- MODULE Spec2Model ----
(***************************************************************************)
(* Model of src/app.py (MedGamm): the gamma-correction lookup table built  *)
(* by adjust_gamma, its application through cv2.LUT, and the Streamlit     *)
(* script that re-runs on every interaction.                               *)
(*                                                                         *)
(* A gamma value is modelled by its number of tenths (the slider moves in  *)
(* steps of 0.1), so gamma = g/10 and invGamma = 10/g.                     *)
(***************************************************************************)
EXTENDS Integers, Naturals, Sequences, FiniteSets, Bags, TLC

(***************************************************************************)
(* Bounds of the model.                                                    *)
(***************************************************************************)
\* the largest number of pixels of an image passed to adjust_gamma
MaxPixels == 4
\* the largest width of an uploaded image
MaxUICols == 2
\* the largest gamma passed to adjust_gamma, in tenths
MaxCallGamma == 30

(***************************************************************************)
(* Program constants.                                                      *)
(***************************************************************************)
\* number of intensities, np.arange(0, 256)
Levels == 256
\* the normalisation constant 255.0
Scale == 255
\* slider: min_value=0.1, max_value=3.0, value=1.0 (in tenths)
SliderMin == 1
SliderMax == 30
SliderDefault == 10

(***************************************************************************)
(* Unbounded naturals.  A double has a 53-bit significand and the exact    *)
(* comparison of two powers needs several hundred bits, so naturals are    *)
(* kept as little-endian sequences of limbs in base 2^22 with no leading   *)
(* zero limb (<<>> is zero).  Only operations with a small (< 2^9)         *)
(* multiplier or divisor are needed.                                       *)
(***************************************************************************)
Base == 2^22

RECURSIVE MulCarry(_, _, _)
MulCarry(n, k, c) ==
    IF n = <<>>
    THEN IF c = 0 THEN <<>> ELSE <<c>>
    ELSE LET p == Head(n) * k + c
         IN  <<p % Base>> \o MulCarry(Tail(n), k, p \div Base)

RECURSIVE Strip(_)
Strip(n) ==
    IF n = <<>> THEN <<>>
    ELSE IF n[Len(n)] = 0 THEN Strip(SubSeq(n, 1, Len(n) - 1)) ELSE n

BigOfSmall(k) == IF k = 0 THEN <<>> ELSE <<k>>

BigMulSmall(n, k) == IF k = 0 THEN <<>> ELSE MulCarry(n, k, 0)

RECURSIVE BigPowMul(_, _, _)
\* n * b^e
BigPowMul(n, b, e) ==
    IF n = <<>> \/ e = 0 THEN n ELSE BigPowMul(BigMulSmall(n, b), b, e - 1)

RECURSIVE CmpFrom(_, _, _)
\* compare limbs k, k-1, ..., 1 of two naturals of equal length: -1, 0, 1
CmpFrom(a, b, k) ==
    IF k = 0 THEN 0
    ELSE IF a[k] < b[k] THEN -1
    ELSE IF a[k] > b[k] THEN 1
    ELSE CmpFrom(a, b, k - 1)

BigCmp(a, b) ==
    IF Len(a) < Len(b) THEN -1
    ELSE IF Len(a) > Len(b) THEN 1
    ELSE CmpFrom(a, b, Len(a))

BigLE(a, b) == BigCmp(a, b) <= 0

RECURSIVE DivFrom(_, _, _, _)
\* long division of limbs k..1 by the small d with incoming remainder r:
\* the quotient limbs (little-endian, unstripped) and the final remainder
DivFrom(n, d, k, r) ==
    IF k = 0 THEN [q |-> <<>>, r |-> r]
    ELSE LET cur == r * Base + n[k]
             rest == DivFrom(n, d, k - 1, cur % d)
         IN  [q |-> Append(rest.q, cur \div d), r |-> rest.r]

BigDivSmall(n, d) ==
    LET res == DivFrom(n, d, Len(n), 0)
    IN  [q |-> Strip(res.q), r |-> res.r]

BigAddSmall(n, k) ==
    \* n + k for a small k, by way of the carry of a multiplication by one
    MulCarry(n, 1, k)

BigIsOdd(n) == n # <<>> /\ n[1] % 2 = 1

RECURSIVE BigToSmall(_)
\* the value of a natural known to be small
BigToSmall(n) == IF n = <<>> THEN 0 ELSE Head(n) + Base * BigToSmall(Tail(n))

(***************************************************************************)
(* IEEE-754 binary64 values that the table construction meets.  A finite   *)
(* positive double is [m, e] with value m * 2^(-e); the significand m has  *)
(* exactly 53 bits.  Zero is [m |-> <<>>, e |-> 0].                        *)
(***************************************************************************)
RECURSIVE BigShl(_, _)
\* n * 2^k, eight bits at a time
BigShl(n, k) ==
    IF n = <<>> \/ k = 0 THEN n
    ELSE LET s == IF k > 8 THEN 8 ELSE k
         IN  BigShl(BigMulSmall(n, 2^s), k - s)

Two52 == BigShl(<<1>>, 52)
Two53 == BigShl(<<1>>, 53)
Two60 == BigShl(<<1>>, 60)

RECURSIVE LeadShift(_, _)
\* the least s with i * 2^s >= 255, for 1 <= i <= 255
LeadShift(i, s) == IF i * 2^s >= Scale THEN s ELSE LeadShift(i, s + 1)

\* renormalise a significand that rounding carried up to 2^53
Renorm(m, e) ==
    IF BigCmp(m, Two53) = 0 THEN [m |-> Two52, e |-> e - 1] ELSE [m |-> m, e |-> e]

\* i / 255.0, rounded to nearest (ties to even), for an integer 0 <= i <= 255
FDiv255(i) ==
    IF i = 0 THEN [m |-> <<>>, e |-> 0]
    ELSE LET e == 52 + LeadShift(i, 0)
             d == BigDivSmall(BigShl(<<i>>, e), Scale)
             up == \/ 2 * d.r > Scale
                   \/ 2 * d.r = Scale /\ BigIsOdd(d.q)
         IN  Renorm(IF up THEN BigAddSmall(d.q, 1) ELSE d.q, e)

\* variant: the product is chopped instead of rounded to nearest
FMul255Chop(x) ==
    IF x.m = <<>> THEN x
    ELSE LET p == BigMulSmall(x.m, Scale)
             drop == IF BigCmp(p, Two60) < 0 THEN 7 ELSE 8
         IN  [m |-> BigDivSmall(p, 2^drop).q, e |-> x.e - drop]

\* x * 255, rounded to nearest (ties to even), for a double 0 <= x <= 1
FMul255(x) ==
    IF x.m = <<>> THEN x
    ELSE LET p == BigMulSmall(x.m, Scale)
             drop == IF BigCmp(p, Two60) < 0 THEN 7 ELSE 8
             d == BigDivSmall(p, 2^drop)
             half == 2^(drop - 1)
             up == \/ d.r > half
                   \/ d.r = half /\ BigIsOdd(d.q)
         IN  Renorm(IF up THEN BigAddSmall(d.q, 1) ELSE d.q, x.e - drop)

RECURSIVE ShiftRight(_, _, _)
\* n shifted right by k bits; sticky tells whether a one bit was shifted out
ShiftRight(n, k, sticky) ==
    IF n = <<>> \/ k = 0 THEN [q |-> n, sticky |-> sticky]
    ELSE LET s == IF k > 8 THEN 8 ELSE k
             d == BigDivSmall(n, 2^s)
         IN  ShiftRight(d.q, k - s, sticky \/ d.r # 0)

\* the integer part and whether a fractional part exists, of a double
\* 0 <= x < 2^9
FTrunc(x) ==
    LET s == ShiftRight(x.m, x.e, FALSE)
    IN  [ip |-> BigToSmall(s.q), frac |-> s.sticky]

(***************************************************************************)
(* The value ((i / 255.0) ** invGamma) * 255 of line 16, before the cast.  *)
(* It is kept as its integer part ip and a flag frac telling whether a     *)
(* fractional part is present; ip = Levels stands for every value that is  *)
(* at least 256, +inf included.                                            *)
(*                                                                         *)
(* For invGamma = 1.0 the power returns its base unchanged and the value   *)
(* is the doubly rounded  fl(fl(i / 255) * 255).  For every other exponent *)
(* the real value 255 * (i/255)^(10/g) is an integer only at i = 0 and     *)
(* i = 255, where the double computation is exact (0 ** p = 0, 1 ** p = 1);*)
(* elsewhere it lies strictly between 0 and 1, as the double does, or      *)
(* further than 1e-5 from every integer, far more than the rounding error  *)
(* of pow and of the product, so the integer part of the double is the     *)
(* integer part of the real value.  That integer part is the largest t     *)
(* with  t^g * 255^10 <= i^10 * 255^g.                                     *)
(***************************************************************************)
InvNum == 10

Intensities == 0 .. (Levels - 1)

PosGammas == 1 .. (IF MaxCallGamma > SliderMax THEN MaxCallGamma ELSE SliderMax)

\* gamma = -1.0
NegGammas == {0 - InvNum}

\* 255^10
ScalePow == BigPowMul(<<1>>, Scale, InvNum)

\* i^10, for every i
IntensityPow == [i \in Intensities |-> BigPowMul(<<1>>, i, InvNum)]

\* t^g * 255^10, for every gamma g > 0 and every t
LhsPow == [g \in PosGammas |-> [t \in Intensities |-> BigPowMul(ScalePow, t, g)]]

\* i^10 * 255^g, for every gamma g > 0 and every i
RhsPow == [g \in PosGammas |->
             [i \in Intensities |-> BigPowMul(IntensityPow[i], Scale, g)]]

RECURSIVE PowSearch(_, _, _, _)
\* the largest t in lo..hi with t^g * 255^10 <= i^10 * 255^g
PowSearch(g, i, lo, hi) ==
    IF lo >= hi THEN lo
    ELSE LET mid == (lo + hi + 1) \div 2
         IN  IF BigLE(LhsPow[g][mid], RhsPow[g][i])
             THEN PowSearch(g, i, mid, hi)
             ELSE PowSearch(g, i, lo, mid - 1)

\* variant: the exponent is gamma instead of 1/gamma, as in the docstring;
\* the largest t with t^10 * 255^g <= i^g * 255^10
PowValueDirect(g, i) ==
    LET t == CHOOSE u \in Intensities :
                 /\ BigLE(RhsPow[g][u], LhsPow[g][i])
                 /\ u < Scale => ~BigLE(RhsPow[g][u + 1], LhsPow[g][i])
    IN  [ip |-> t, frac |-> BigCmp(RhsPow[g][t], LhsPow[g][i]) # 0]

\* ((i / 255.0) ** (10/g)) * 255 for g > 0, g # 10
PowValue(g, i) ==
    LET t == PowSearch(g, i, 0, Scale)
    IN  [ip |-> t, frac |-> BigCmp(LhsPow[g][t], RhsPow[g][i]) # 0]

\* ((i / 255.0) ** (-10/n)) * 255 for n > 0: +inf at i = 0, 255 at i = 255,
\* and 255 * (255/i)^(10/n) > 255 in between, which is below 256 exactly
\* when 255^(n+10) < 256^n * i^10
NegPowValue(n, i) ==
    IF i = 0 THEN [ip |-> Levels, frac |-> FALSE]
    ELSE IF i = Scale THEN [ip |-> Scale, frac |-> FALSE]
    ELSE IF BigCmp(BigPowMul(<<1>>, Scale, n + InvNum),
                   BigPowMul(BigPowMul(<<1>>, Levels, n), i, InvNum)) < 0
         THEN [ip |-> Scale, frac |-> TRUE]
         ELSE [ip |-> Levels, frac |-> TRUE]

\* variant: the exponent has the wrong sign
TableValueNegExp(g, i) ==
    IF g > 0 THEN NegPowValue(g, i) ELSE PowValue(0 - g, i)

\* variant: the value is rounded up before the cast
TableValueCeil(g, i) ==
    LET v == IF g = InvNum THEN FTrunc(FMul255(FDiv255(i)))
             ELSE IF g > 0 THEN PowValue(g, i)
             ELSE NegPowValue(0 - g, i)
    IN  IF v.frac /\ v.ip < Levels THEN [ip |-> v.ip + 1, frac |-> FALSE] ELSE v

\* the element of the list comprehension of lines 16-17 for intensity i
TableValue(g, i) ==
    IF g = InvNum THEN FTrunc(FMul255(FDiv255(i)))
    ELSE IF g > 0 THEN PowValue(g, i)
    ELSE NegPowValue(0 - g, i)

\* the list built by the comprehension of lines 16-17, element i+1 for i
TableValues(g) == [k \in 1 .. Levels |-> TableValue(g, k - 1)]

\* the lists of all the gammas of the model, computed once
ValuesOf == [g \in PosGammas \cup NegGammas |-> TableValues(g)]

(***************************************************************************)
(* .astype("uint8"), line 17.  A value whose integer part is in 0..255 is  *)
(* truncated toward zero.  The conversion of any other double to an 8-bit  *)
(* integer is undefined in C: the byte ub that the build produces is       *)
(* chosen by the caller of this operator among all of 0..255.              *)
(***************************************************************************)
\* variant: a cast to seven bits
AsUint7(v, ub) == IF v.ip < Levels THEN v.ip % 128 ELSE ub

AsUint8(v, ub) == IF v.ip < Levels THEN v.ip ELSE ub

AsTable(vals, ub) == [i \in Intensities |-> AsUint8(vals[i + 1], ub)]

UBBytes == 0 .. (Levels - 1)

\* the bytes an undefined cast has to be chosen from: none to choose when
\* every value is in range
CastChoices(vals) ==
    IF \A k \in 1 .. Len(vals) : vals[k].ip < Levels THEN {0} ELSE UBBytes

(***************************************************************************)
(* Images.  A numpy array is [dtype, ndim, data]: data[r][c] is the pixel  *)
(* of a 2-D array and data[r][c][ch] that of a 3-D (multi-channel) one.    *)
(* NoneImage stands for Python's None.                                     *)
(***************************************************************************)
NoneImage == [dtype |-> "None", ndim |-> 0, data |-> <<>>]

Palette == {0, 128, 255}

Gray(rows, cols) ==
    {[dtype |-> "uint8", ndim |-> 2, data |-> d] :
        d \in [1 .. rows -> [1 .. cols -> Palette]]}

ScenarioImage ==
    [dtype |-> "uint8", ndim |-> 2, data |-> <<<<0, 128>>, <<255, 64>>>>]

Shapes == {rc \in (1 .. MaxPixels) \X (1 .. MaxPixels) : rc[1] * rc[2] <= MaxPixels}

ValidImages == UNION {Gray(rc[1], rc[2]) : rc \in Shapes} \cup {ScenarioImage}

ColourImages ==
    {[dtype |-> "uint8", ndim |-> 3, data |-> <<<<px>>>>] :
        px \in [1 .. 3 -> Palette]}

WideImages ==
    {[dtype |-> "uint16", ndim |-> 2, data |-> <<<<v>>>>] : v \in {0, 255, 256, 65535}}

SignedImages ==
    {[dtype |-> "int8", ndim |-> 2, data |-> <<<<v>>>>] : v \in {0 - 128, 0 - 1, 0, 127}}

InvalidImages == ColourImages \cup WideImages \cup SignedImages

IsValidImage(img) ==
    /\ img.dtype = "uint8"
    /\ img.ndim = 2
    /\ \A r \in 1 .. Len(img.data) : \A c \in 1 .. Len(img.data[r]) :
          img.data[r][c] \in Intensities

Shape(img) ==
    IF img.ndim = 2 THEN <<Len(img.data), Len(img.data[1])>>
    ELSE <<Len(img.data), Len(img.data[1]), Len(img.data[1][1])>>

(***************************************************************************)
(* cv2.LUT(src, lut), line 20.  OpenCV accepts a source of depth CV_8U or  *)
(* CV_8S with any number of channels and raises cv2.error for every other  *)
(* depth; the destination is a new array with the size and the channels of *)
(* the source and the depth of the table, dst(I) = lut(src(I) + d) with    *)
(* d = 0 for CV_8U and d = 128 for CV_8S.                                  *)
(***************************************************************************)
LutOffset(dtype) == IF dtype = "int8" THEN 128 ELSE 0

\* variant: every row is looked up from the first row of the source
LutDataFirstRow(src, lut) ==
    [r \in 1 .. Len(src.data) |->
        [c \in 1 .. Len(src.data[r]) |-> lut[src.data[1][c]]]]

LutData(src, lut) ==
    LET d == LutOffset(src.dtype)
    IN  IF src.ndim = 2
        THEN [r \in 1 .. Len(src.data) |->
                [c \in 1 .. Len(src.data[r]) |-> lut[src.data[r][c] + d]]]
        ELSE [r \in 1 .. Len(src.data) |->
                [c \in 1 .. Len(src.data[r]) |->
                   [ch \in 1 .. Len(src.data[r][c]) |-> lut[src.data[r][c][ch] + d]]]]

LUT(src, lut) ==
    IF src.dtype \in {"uint8", "int8"}
    THEN [raised |-> "none",
          dst |-> [dtype |-> "uint8", ndim |-> src.ndim, data |-> LutData(src, lut)]]
    ELSE [raised |-> "cv2.error", dst |-> NoneImage]

(***************************************************************************)
(* adjust_gamma(image, gamma) as one step.  The result records what the    *)
(* call leaves behind: the exception raised ("none" when it returns), the  *)
(* list of the comprehension, the table, the returned array, and the       *)
(* caller's array after the call (cv2.LUT writes to a new array).  ub is   *)
(* the byte of an undefined cast.                                          *)
(***************************************************************************)
\* variant: the lookup writes into the source array, cv2.LUT(image, table, image)
adjust_gamma_inplace(img, g, ub) ==
    IF g = 0
    THEN [raised |-> "ZeroDivisionError", values |-> <<>>, table |-> <<>>,
          ret |-> NoneImage, image |-> img]
    ELSE LET vals == ValuesOf[g]
             tab == AsTable(vals, ub)
             out == LUT(img, tab)
         IN  [raised |-> out.raised, values |-> vals, table |-> tab,
              ret |-> out.dst,
              image |-> IF out.raised = "none" THEN out.dst ELSE img]

adjust_gamma(img, g, ub) ==
    IF g = 0
    THEN \* line 15: 1.0 / 0.0 on Python floats
         [raised |-> "ZeroDivisionError", values |-> <<>>, table |-> <<>>,
          ret |-> NoneImage, image |-> img]
    ELSE LET vals == ValuesOf[g]
             tab == AsTable(vals, ub)
             out == LUT(img, tab)
         IN  [raised |-> out.raised, values |-> vals, table |-> tab,
              ret |-> out.dst, image |-> img]

(***************************************************************************)
(* plot_histogram(image, title): ax.hist(image.ravel(), 256, [0, 256]),    *)
(* the number of pixels of each intensity.                                 *)
(***************************************************************************)
plot_histogram(img) ==
    [v \in Intensities |->
        Cardinality({rc \in (1 .. Len(img.data)) \X (1 .. Len(img.data[1])) :
                        img.data[rc[1]][rc[2]] = v})]

NoFigure == [v \in Intensities |-> 0]

\* np.min / np.max of a 2-D array, for the caption of line 87
PixelSet(img) ==
    {img.data[rc[1]][rc[2]] : rc \in (1 .. Len(img.data)) \X (1 .. Len(img.data[1]))}

ArrayMin(img) == CHOOSE m \in PixelSet(img) : \A v \in PixelSet(img) : m <= v

ArrayMax(img) == CHOOSE m \in PixelSet(img) : \A v \in PixelSet(img) : m >= v

(***************************************************************************)
(* State.                                                                  *)
(***************************************************************************)
VARIABLES
    pc,             \* position in adjust_gamma: "idle" when no call was made
    image,          \* parameter image: the caller's array
    gamma,          \* parameter gamma, in tenths
    values,         \* the list of the comprehension of line 16
    table,          \* the lookup table of line 17
    raised,         \* the exception that ended the call, "none" otherwise
    ret,            \* the array returned by the call
    uploaded_file,  \* the decoded upload of the sidebar, NoneImage if none
    gamma_val,      \* the slider, in tenths
    img_array,      \* script variable of line 51
    processed_img,  \* script variable of line 57
    col1,           \* what the left column shows
    col2,           \* what the right column shows
    advisory,       \* which message of lines 78-90 is shown
    caption         \* the statistics of line 87

callVars == <<pc, image, gamma, values, table, raised, ret>>

uiVars == <<uploaded_file, gamma_val, img_array, processed_img, col1, col2,
            advisory, caption>>

vars == <<pc, image, gamma, values, table, raised, ret, uploaded_file,
          gamma_val, img_array, processed_img, col1, col2, advisory, caption>>

SliderGammas == SliderMin .. SliderMax

CallGammas == NegGammas \cup (0 .. MaxCallGamma)

AllImages == ValidImages \cup InvalidImages

\* the decoded uploads: Image.open(...).convert('L') is always 2-D uint8
UploadImages == UNION {Gray(1, c) : c \in 1 .. MaxUICols}

EmptyColumn == [image |-> NoneImage, hist |-> NoFigure]

\* the script before any run of the upload branch
NoUpload ==
    /\ uploaded_file = NoneImage
    /\ gamma_val = SliderDefault
    /\ img_array = NoneImage
    /\ processed_img = NoneImage
    /\ col1 = EmptyColumn
    /\ col2 = EmptyColumn
    /\ advisory = "upload"
    /\ caption = <<>>

(***************************************************************************)
(* adjust_gamma called once on arbitrary arguments.                        *)
(***************************************************************************)
InitCall ==
    /\ pc = "call"
    /\ image \in AllImages
    /\ gamma \in CallGammas
    /\ values = <<>>
    /\ table = <<>>
    /\ raised = "none"
    /\ ret = NoneImage
    /\ NoUpload

Call ==
    /\ pc = "call"
    /\ \E ub \in (IF gamma < 0 THEN UBBytes ELSE {0}) :
          \E res \in {adjust_gamma(image, gamma, ub)} :
              /\ image' = res.image
              /\ values' = res.values
              /\ table' = res.table
              /\ raised' = res.raised
              /\ ret' = res.ret
    /\ pc' = "done"
    /\ UNCHANGED <<gamma, uploaded_file, gamma_val, img_array, processed_img,
                   col1, col2, advisory, caption>>

NextCall == Call

SpecCall == InitCall /\ [][NextCall]_vars

(***************************************************************************)
(* adjust_gamma line by line, on the image of the worked example.          *)
(***************************************************************************)
InitTable ==
    /\ pc = "line15"
    /\ image = ScenarioImage
    /\ gamma \in CallGammas
    /\ values = <<>>
    /\ table = <<>>
    /\ raised = "none"
    /\ ret = NoneImage
    /\ NoUpload

\* invGamma = 1.0 / gamma
Line15 ==
    /\ pc = "line15"
    /\ IF gamma = 0
       THEN raised' = "ZeroDivisionError" /\ pc' = "done"
       ELSE raised' = raised /\ pc' = "line16"
    /\ UNCHANGED <<image, gamma, values, table, ret>>
    /\ UNCHANGED uiVars

\* one element of the comprehension
Line16 ==
    /\ pc = "line16"
    /\ Len(values) < Levels
    /\ values' = Append(values, ValuesOf[gamma][Len(values) + 1])
    /\ UNCHANGED <<pc, image, gamma, table, raised, ret>>
    /\ UNCHANGED uiVars

\* np.array(...).astype("uint8")
Line17 ==
    /\ pc = "line16"
    /\ Len(values) = Levels
    /\ \E ub \in CastChoices(values) : table' = AsTable(values, ub)
    /\ pc' = "line20"
    /\ UNCHANGED <<image, gamma, values, raised, ret>>
    /\ UNCHANGED uiVars

\* return cv2.LUT(image, table)
Line20 ==
    /\ pc = "line20"
    /\ LET out == LUT(image, table)
       IN  raised' = out.raised /\ ret' = out.dst
    /\ pc' = "done"
    /\ UNCHANGED <<image, gamma, values, table>>
    /\ UNCHANGED uiVars

NextTable == Line15 \/ Line16 \/ Line17 \/ Line20

SpecTable == InitTable /\ [][NextTable]_vars

(***************************************************************************)
(* The Streamlit script, lines 46-92: it runs from the top on every        *)
(* interaction, with the widget values of that interaction.  The slider is *)
(* created only in the upload branch, so a run without a file drops its    *)
(* value and the next upload starts again from value=1.0.                  *)
(***************************************************************************)
AdvisoryFor(g) ==
    IF g < SliderDefault THEN "info"
    ELSE IF g > SliderDefault THEN "warning"
    ELSE "success"

\* lines 89-92: the run without a file
ElseBranch ==
    [pc |-> "idle", image |-> NoneImage, gamma |-> SliderDefault,
     values |-> <<>>, table |-> <<>>, raised |-> "none", ret |-> NoneImage,
     gamma_val |-> SliderDefault, img_array |-> NoneImage,
     processed_img |-> NoneImage, col1 |-> EmptyColumn, col2 |-> EmptyColumn,
     advisory |-> "upload", caption |-> <<>>]

\* lines 57-87, given what the call of line 57 left behind
UploadBranch(slider, res) ==
    [pc |-> "done", image |-> res.image, gamma |-> slider,
     values |-> res.values, table |-> res.table, raised |-> res.raised,
     ret |-> res.ret,
     gamma_val |-> slider, img_array |-> res.image,
     processed_img |-> res.ret,
     col1 |-> [image |-> res.image, hist |-> plot_histogram(res.image)],
     col2 |-> [image |-> res.ret, hist |-> plot_histogram(res.ret)],
     advisory |-> AdvisoryFor(slider),
     caption |-> <<ArrayMin(res.ret), ArrayMax(res.ret)>>]

\* variant: the transform is cached per image and not redone when only the
\* slider moves
ScriptCached(file, slider) ==
    IF file = NoneImage THEN ElseBranch
    ELSE IF file = uploaded_file /\ pc = "done"
    THEN UploadBranch(slider, [raised |-> raised, values |-> values, table |-> table,
                               ret |-> ret, image |-> image])
    ELSE UploadBranch(slider, adjust_gamma(file, slider, 0))

Script(file, slider) ==
    IF file = NoneImage THEN ElseBranch
    ELSE UploadBranch(slider, adjust_gamma(file, slider, 0))

Run(file, slider) ==
    \E s \in {Script(file, slider)} :
        /\ uploaded_file' = file
        /\ pc' = s.pc
        /\ image' = s.image
        /\ gamma' = s.gamma
        /\ values' = s.values
        /\ table' = s.table
        /\ raised' = s.raised
        /\ ret' = s.ret
        /\ gamma_val' = s.gamma_val
        /\ img_array' = s.img_array
        /\ processed_img' = s.processed_img
        /\ col1' = s.col1
        /\ col2' = s.col2
        /\ advisory' = s.advisory
        /\ caption' = s.caption

InitUI ==
    /\ pc = "idle"
    /\ image = NoneImage
    /\ gamma = SliderDefault
    /\ values = <<>>
    /\ table = <<>>
    /\ raised = "none"
    /\ ret = NoneImage
    /\ NoUpload

\* the user uploads (or replaces) a file
Upload == \E f \in UploadImages : Run(f, gamma_val)

\* the user moves the slider, which exists only while a file is uploaded
Slide ==
    /\ uploaded_file # NoneImage
    /\ \E g \in SliderGammas : Run(uploaded_file, g)

\* the user removes the file
Remove ==
    /\ uploaded_file # NoneImage
    /\ Run(NoneImage, gamma_val)

NextUI == Upload \/ Slide \/ Remove

SpecUI == InitUI /\ [][NextUI]_vars

(***************************************************************************)
(* Properties.                                                             *)
(***************************************************************************)
Returned == pc = "done" /\ raised = "none"

TableBuilt == pc \in {"line20", "done"} /\ table # <<>>

\* C1: with gamma = 1.0 the table is the identity on 0..255 and the
\* returned image equals the input image, for every valid image.
C1_IdentityAtGammaOne ==
    (pc = "done" /\ gamma = SliderDefault /\ IsValidImage(image)) =>
        /\ raised = "none"
        /\ \A i \in Intensities : table[i] = i
        /\ ret = image

C1_Witness ==
    /\ Returned
    /\ gamma = SliderDefault
    /\ image = ScenarioImage
    /\ ret = ScenarioImage

\* C2: a call with gamma <= 0 ends in an error, raised before any element
\* of the table is computed.
C2_NonPositiveGammaRejected ==
    (pc = "done" /\ gamma <= 0) => (raised # "none" /\ values = <<>>)

\* C3: for every gamma > 0 the table is monotonically non-decreasing:
\* a <= b implies table[a] <= table[b].
C3_TableMonotone ==
    (TableBuilt /\ gamma > 0) =>
        \A a \in Intensities : \A b \in Intensities :
            a <= b => table[a] <= table[b]

C3_Witness ==
    /\ Returned
    /\ gamma = 20
    /\ table[64] < table[128]
    /\ table[128] < table[255]

\* C4: for a valid image and gamma > 0 the call returns an image of the
\* shape of the input whose pixel at (r, c) is table[image[r][c]].
C4_PointwiseLookup ==
    (pc = "done" /\ gamma > 0 /\ IsValidImage(image)) =>
        /\ raised = "none"
        /\ ret.dtype = "uint8"
        /\ ret.ndim = 2
        /\ Shape(ret) = Shape(image)
        /\ \A r \in 1 .. Len(image.data) : \A c \in 1 .. Len(image.data[r]) :
              ret.data[r][c] = table[image.data[r][c]]

C4_Witness ==
    /\ Returned
    /\ gamma = 20
    /\ image = ScenarioImage
    /\ Shape(ret) = <<2, 2>>
    /\ ret.data[1][2] # ret.data[2][2]

\* C5: for every gamma > 0 each value before the cast lies in [0, 255], so
\* the cast does not wrap: each table entry is that value's integer part, in
\* 0..255, and so is every pixel of the returned image.
C5_RangePreserved ==
    (TableBuilt /\ gamma > 0) =>
        /\ \A i \in Intensities :
              /\ values[i + 1].ip \in 0 .. Scale
              /\ values[i + 1].ip = Scale => ~values[i + 1].frac
              /\ table[i] = values[i + 1].ip
              /\ table[i] \in 0 .. Scale
        /\ Returned =>
              \A r \in 1 .. Len(ret.data) : \A c \in 1 .. Len(ret.data[r]) :
                  ret.data[r][c] \in 0 .. Scale

C5_Witness ==
    /\ Returned
    /\ gamma = SliderMax
    /\ table[Scale] = Scale
    /\ table[1] > 1
    /\ ret.data[2][1] = Scale

\* C6: a call whose image is not 2-D single-channel 8-bit data ends in an
\* error and returns no image.
C6_InvalidInputRejected ==
    (pc = "done" /\ ~IsValidImage(image)) => (raised # "none" /\ ret = NoneImage)

\* C7: the call leaves its input array as it was: after every run of the
\* script with an upload, the caller's array is still the decoded upload,
\* and the left column shows that image and its histogram.
C7_InputNotMutated ==
    uploaded_file # NoneImage =>
        /\ image = uploaded_file
        /\ img_array = uploaded_file
        /\ col1 = [image |-> uploaded_file, hist |-> plot_histogram(uploaded_file)]

C7_Witness ==
    /\ uploaded_file # NoneImage
    /\ Returned
    /\ processed_img # uploaded_file
    /\ col1.image = uploaded_file

\* C8: after every interaction the displayed result is the transform of the
\* current image with the current gamma, built from the table of that gamma
\* alone, and without a file the transform is not called.
C8_StatelessInteractions ==
    /\ uploaded_file = NoneImage =>
          /\ pc = "idle"
          /\ table = <<>>
          /\ processed_img = NoneImage
          /\ col2 = EmptyColumn
    /\ uploaded_file # NoneImage =>
          /\ Returned
          /\ gamma = gamma_val
          /\ table = AsTable(ValuesOf[gamma_val], 0)
          /\ processed_img = LUT(uploaded_file, AsTable(ValuesOf[gamma_val], 0)).dst
          /\ col2 = [image |-> processed_img, hist |-> plot_histogram(processed_img)]

C8_Witness ==
    /\ uploaded_file # NoneImage
    /\ gamma_val = 5
    /\ Returned
    /\ processed_img # uploaded_file

====
